---- MODULE Spec2Model ----
(***************************************************************************)
(* A model of the three report scripts of ECONOMIC-GROWTH-MODEL:           *)
(*   economic_growth_prediction_model.py  (SouthAfricaEconomicPredictor)   *)
(*   currency_strength_analysis.py        (CurrencyStrengthAnalyzer)       *)
(*   economic_comparison_dashboard.py     (EconomicComparisonDashboard)    *)
(* Each script is its own program and has its own specification: Spec,     *)
(* SpecCurrency and SpecDashboard.                                         *)
(*                                                                         *)
(* float64 values are modelled by exact rationals in lowest terms plus the *)
(* two special values the arithmetic of pandas/numpy can produce from      *)
(* non-negative inputs: nan and +inf.  No operation of numpy or pandas     *)
(* used by the scripts raises on a zero divisor.                           *)
(***************************************************************************)
EXTENDS Integers, Sequences, FiniteSets, TLC

VARIABLES
    csv_files,               \* the three CSV files on disk that load_data reads
    private_data,            \* predictor.private_data: None or a DataFrame
    public_data,             \* predictor.public_data
    employment_predictions,  \* predictor.employment_predictions
    pc,                      \* position inside generate_predictions ("idle" outside)
    calls,                   \* methods generate_predictions has called in the current run
    gp,                      \* locals of the generate_predictions call in progress
    frame,                   \* locals of the last predict_gdp_growth call that ran to its end
    ret,                     \* outcome of the last call on the predictor
    ppp_data,                \* analyzer: the table analyze_purchasing_power builds its frame from
    currency_out,            \* analyzer: outcome of the last call
    economic_data,           \* dashboard: the table create_comprehensive_dashboard starts from
    dashboard_out            \* dashboard: outcome of the last call

vars == <<csv_files, private_data, public_data, employment_predictions, pc, calls, gp, frame, ret,
          ppp_data, currency_out, economic_data, dashboard_out>>

predictorVars == <<csv_files, private_data, public_data, employment_predictions, pc, calls, gp, frame,
                   ret>>
currencyVars == <<ppp_data, currency_out>>
dashboardVars == <<economic_data, dashboard_out>>

\* Python's None, as a record so that it compares with DataFrames and dicts.
None == [none |-> TRUE]

(***************************************************************************)
(* Bounds of the model.                                                    *)
(***************************************************************************)
MaxRows == 2          \* rows of the private-sector CSV
MaxPublicRows == 1    \* rows of the public-sector CSV
MaxPredRows == 1      \* rows of the employment-predictions CSV
MaxLen == 3           \* rows of a drawn country table
MaxSeeds == 2         \* distinct draws of the unseeded random noise

(***************************************************************************)
(* float64 arithmetic.                                                     *)
(***************************************************************************)
Abs(x) == IF x < 0 THEN -x ELSE x

RECURSIVE GCD(_, _)
GCD(a, b) == IF b = 0 THEN a ELSE GCD(b, a % b)

Num(n, d) ==
    LET s == IF d < 0 THEN -1 ELSE 1
        g == GCD(Abs(n), Abs(d))
    IN  [k |-> "num", n |-> (s * n) \div g, d |-> (s * d) \div g]

NaN == [k |-> "nan", n |-> 0, d |-> 1]
Inf == [k |-> "inf", n |-> 1, d |-> 1]
I(x) == Num(x, 1)

IsNum(a) == a.k = "num"
IsNaN(a) == a.k = "nan"

FAdd(a, b) ==
    IF IsNaN(a) \/ IsNaN(b) THEN NaN
    ELSE IF a.k = "inf" \/ b.k = "inf" THEN Inf
    ELSE LET g == GCD(a.d, b.d)
         IN  Num(a.n * (b.d \div g) + b.n * (a.d \div g), a.d * (b.d \div g))

FMul(a, b) ==
    IF IsNaN(a) \/ IsNaN(b) THEN NaN
    ELSE IF a.k = "inf" THEN (IF b.k = "num" /\ b.n = 0 THEN NaN ELSE Inf)
    ELSE IF b.k = "inf" THEN (IF a.n = 0 THEN NaN ELSE Inf)
    ELSE LET g1 == GCD(Abs(a.n), b.d)
             g2 == GCD(Abs(b.n), a.d)
         IN  Num((a.n \div g1) * (b.n \div g2), (a.d \div g2) * (b.d \div g1))

\* numpy true division: x/0 is inf, 0/0 is nan, and nothing is raised.
FDiv(a, b) ==
    IF IsNaN(a) \/ IsNaN(b) THEN NaN
    ELSE IF a.k = "inf" THEN (IF b.k = "inf" THEN NaN ELSE Inf)
    ELSE IF b.k = "inf" THEN I(0)
    ELSE IF b.n = 0 THEN (IF a.n = 0 THEN NaN ELSE Inf)
    ELSE FMul(a, Num(b.d, b.n))

\* a/b <= c/d for b, d > 0, by continued fractions (no product is formed).
RECURSIVE RatLe(_, _, _, _)
RatLe(a, b, c, d) ==
    LET q1 == a \div b
        q2 == c \div d
        r1 == a % b
        r2 == c % d
    IN  IF q1 # q2 THEN q1 < q2
        ELSE IF r1 = 0 THEN TRUE
        ELSE IF r2 = 0 THEN FALSE
        ELSE RatLe(d, r2, b, r1)

\* a <= b on float64; every comparison with nan is False.
FLe(a, b) ==
    IF IsNaN(a) \/ IsNaN(b) THEN FALSE
    ELSE IF b.k = "inf" THEN TRUE
    ELSE IF a.k = "inf" THEN FALSE
    ELSE RatLe(a.n, a.d, b.n, b.d)

FEq(a, b) == FLe(a, b) /\ FLe(b, a)

\* Series.sum(): skipna=True, the sum of no value is 0.
RECURSIVE SeriesSum(_)
SeriesSum(s) ==
    IF s = <<>> THEN I(0)
    ELSE LET rest == SeriesSum(Tail(s))
         IN  IF IsNaN(Head(s)) THEN rest ELSE FAdd(Head(s), rest)

\* Series.max(): skipna=True, nan for a Series with no value.
RECURSIVE SeriesMax(_)
SeriesMax(s) ==
    IF s = <<>> THEN NaN
    ELSE LET rest == SeriesMax(Tail(s))
         IN  IF IsNaN(Head(s)) THEN rest
             ELSE IF IsNaN(rest) THEN Head(s)
             ELSE IF FLe(rest, Head(s)) THEN Head(s) ELSE rest

Column(rows, c) == [i \in 1..Len(rows) |-> rows[i][c]]

(***************************************************************************)
(* DataFrames: the set of column names and the rows, in index order.       *)
(***************************************************************************)
DataFrame(cols, rows) == [columns |-> cols, rows |-> rows]

Perms(n) == {p \in [1..n -> 1..n] : \A i, j \in 1..n : p[i] = p[j] => i = j}

\* The row orders DataFrame.sort_values(col, ascending=False) can return.  kind
\* defaults to 'quicksort', which is not a stable sort: any order that is
\* non-increasing in the key, nan last, is an outcome; the order of rows with
\* equal keys is whatever the sorting routine of the build leaves.
SortOrders(rows, col) ==
    {p \in Perms(Len(rows)) :
        \A i, j \in 1..Len(rows) :
            i < j => \/ IsNaN(rows[p[j]][col])
                     \/ /\ ~IsNaN(rows[p[i]][col])
                        /\ FLe(rows[p[j]][col], rows[p[i]][col])}

Reorder(rows, p) == [i \in 1..Len(rows) |-> rows[p[i]]]

\* NormalizeRelative with the column minimum as the denominator.
NormalizeByMin(col) ==
    LET m == SeriesMax(col)
        least == CHOOSE x \in {col[i] : i \in 1..Len(col)} :
                     \A j \in 1..Len(col) : IsNaN(col[j]) \/ FLe(x, col[j])
    IN  [i \in 1..Len(col) |->
            IF IsNaN(m) THEN NaN ELSE FMul(FDiv(col[i], least), I(100))]

\* (col / col.max()) * 100
NormalizeRelative(col) ==
    LET m == SeriesMax(col)
    IN  [i \in 1..Len(col) |-> FMul(FDiv(col[i], m), I(100))]

Outcome(op, status, value) == [op |-> op, status |-> status, value |-> value]

(***************************************************************************)
(* economic_growth_prediction_model.py                                     *)
(***************************************************************************)
\* The rows the CSV files are drawn from; "Mining" is no key of private_gdp.
PrivateRowValues ==
    {[Sector |-> r[1], Growth_pct |-> I(r[2]), Employment_2024 |-> I(r[3])] :
        r \in {<<"Finance", 10, 1000>>, <<"ICT", 5, 2000>>, <<"Mining", 5, 2000>>,
               <<"Finance", 5, 0>>}}

PublicRowValues ==
    {[Sector |-> "Government", Growth_pct |-> I(ge[1]), Employment_2023 |-> I(ge[2])] :
        ge \in {<<10, 1000>>, <<5, 0>>}}

PredictionRowValues ==
    {[Year |-> yp[1], Predicted_Employment |-> I(yp[2])] :
        yp \in {<<2027, 17>>, <<2028, 21>>}}

SeqsUpTo(S, n) == UNION {[1..k -> S] : k \in 0..n}

PrivateTables ==
    {DataFrame({"Sector", "Growth_pct", "Employment_2024"}, rows) :
        rows \in SeqsUpTo(PrivateRowValues, MaxRows)}

PublicTables ==
    {DataFrame({"Sector", "Growth_pct", "Employment_2023"}, rows) :
        rows \in SeqsUpTo(PublicRowValues, MaxPublicRows)}

PredictionTables ==
    {DataFrame({"Year", "Predicted_Employment"}, rows) :
        rows \in SeqsUpTo(PredictionRowValues, MaxPredRows)}

private_gdp ==
    [s \in {"Finance", "ICT", "Manufacturing", "Construction", "Agriculture",
            "Transport", "Wholesale", "Other"} |->
        CASE s = "Finance" -> Num(25, 100)
          [] s = "ICT" -> Num(15, 100)
          [] s = "Manufacturing" -> Num(12, 100)
          [] s = "Construction" -> Num(8, 100)
          [] s = "Agriculture" -> Num(5, 100)
          [] s = "Transport" -> Num(6, 100)
          [] s = "Wholesale" -> Num(10, 100)
          [] s = "Other" -> Num(19, 100)]

\* Series.map(dict): a value that is no key of the dict maps to nan.
SeriesMap(d, key) == IF key \in DOMAIN d THEN d[key] ELSE NaN

\* GdpImpact with the growth percentage not divided by 100.
GdpImpactNoPercent(growth, contribution) == FMul(growth, contribution)

\* (Growth_% / 100) * Economic_Contribution
GdpImpact(growth, contribution) == FMul(FDiv(growth, I(100)), contribution)

\* PrivateIndicators with Growth_% rescaled in place before GDP_Impact is taken.
PrivateIndicatorsRescaling(df) ==
    DataFrame(df.columns \cup {"Economic_Contribution", "GDP_Impact"},
        [i \in 1..Len(df.rows) |->
            LET r == df.rows[i]
                c == SeriesMap(private_gdp, r.Sector)
                g == FDiv(r.Growth_pct, I(100))
            IN  [Sector |-> r.Sector, Growth_pct |-> g,
                 Employment_2024 |-> r.Employment_2024,
                 Economic_Contribution |-> c,
                 GDP_Impact |-> FMul(g, c)]])

\* Lines 40-41: the two columns are assigned into self.private_data itself.
PrivateIndicators(df) ==
    DataFrame(df.columns \cup {"Economic_Contribution", "GDP_Impact"},
        [i \in 1..Len(df.rows) |->
            LET r == df.rows[i]
                c == SeriesMap(private_gdp, r.Sector)
            IN  [Sector |-> r.Sector, Growth_pct |-> r.Growth_pct,
                 Employment_2024 |-> r.Employment_2024,
                 Economic_Contribution |-> c,
                 GDP_Impact |-> GdpImpact(r.Growth_pct, c)]])

\* Lines 44-45.
PublicIndicators(df) ==
    DataFrame(df.columns \cup {"Economic_Contribution", "GDP_Impact"},
        [i \in 1..Len(df.rows) |->
            LET r == df.rows[i]
                c == Num(20, 100)
            IN  [Sector |-> r.Sector, Growth_pct |-> r.Growth_pct,
                 Employment_2023 |-> r.Employment_2023,
                 Economic_Contribution |-> c,
                 GDP_Impact |-> GdpImpact(r.Growth_pct, c)]])

\* (df['GDP_Impact'] * df[emp]).sum() / df[emp].sum()
SectorGrowth(df, emp) ==
    FDiv(SeriesSum([i \in 1..Len(df.rows) |->
                        FMul(df.rows[i].GDP_Impact, df.rows[i][emp])]),
         SeriesSum(Column(df.rows, emp)))

\* The locals of predict_gdp_growth once every line has run.
PredictFrame(priv, pub) ==
    LET tpriv == SeriesSum(Column(priv.rows, "Employment_2024"))
        tpub == SeriesSum(Column(pub.rows, "Employment_2023"))
        base == FDiv(FAdd(FMul(tpriv, I(85000)), FMul(tpub, I(75000))), I(1000000))
        pg == SectorGrowth(priv, "Employment_2024")
        ug == SectorGrowth(pub, "Employment_2023")
        total == FMul(FAdd(FMul(pg, Num(8, 10)), FMul(ug, Num(2, 10))), I(100))
    IN  [total_private_employment |-> tpriv, total_public_employment |-> tpub,
         base_gdp |-> base, private_growth |-> pg, public_growth |-> ug,
         total_growth |-> total]

\* PredictOutcome with a missing table or column read as an empty forecast.
PredictOutcomeLenient(priv, pub) ==
    IF priv = None \/ pub = None
       \/ "GDP_Impact" \notin priv.columns \/ "GDP_Impact" \notin pub.columns
    THEN Outcome("predict_gdp_growth", "ok",
             [base_gdp_billion |-> I(0), predicted_growth_rate |-> I(0), gdp_2024 |-> I(0)])
    ELSE LET f == PredictFrame(priv, pub)
         IN  Outcome("predict_gdp_growth", "ok",
                 [base_gdp_billion |-> f.base_gdp,
                  predicted_growth_rate |-> f.total_growth,
                  gdp_2024 |-> FMul(f.base_gdp,
                                    FAdd(I(1), FDiv(f.total_growth, I(100))))])

\* predict_gdp_growth: what the call returns or raises.
PredictOutcome(priv, pub) ==
    IF priv = None \/ pub = None
    THEN Outcome("predict_gdp_growth", "TypeError", None)
    ELSE IF "GDP_Impact" \notin priv.columns \/ "GDP_Impact" \notin pub.columns
    THEN Outcome("predict_gdp_growth", "KeyError", None)
    ELSE LET f == PredictFrame(priv, pub)
         IN  Outcome("predict_gdp_growth", "ok",
                 [base_gdp_billion |-> f.base_gdp,
                  predicted_growth_rate |-> f.total_growth,
                  gdp_2024 |-> FMul(f.base_gdp,
                                    FAdd(I(1), FDiv(f.total_growth, I(100))))])

countries ==
    << [Country |-> "USA", gdp |-> I(28), employment_millions |-> I(160),
        currency_strength |-> I(1)],
       [Country |-> "China", gdp |-> I(18), employment_millions |-> I(780),
        currency_strength |-> Num(14, 100)],
       [Country |-> "England", gdp |-> Num(35, 10), employment_millions |-> I(33),
        currency_strength |-> Num(127, 100)],
       [Country |-> "South_Africa", gdp |-> Num(4, 10), employment_millions |-> Num(165, 10),
        currency_strength |-> Num(53, 1000)] >>

\* CompositePower with the three weights equal.
CompositePowerEqualWeights(size, employment, currency) ==
    FDiv(FAdd(FAdd(size, employment), currency), I(3))

\* Lines 94-98.
CompositePower(size, employment, currency) ==
    FAdd(FAdd(FMul(size, Num(4, 10)), FMul(employment, Num(3, 10))),
         FMul(currency, Num(3, 10)))

\* create_international_comparison over the table `cs`.
InternationalComparison(cs) ==
    LET size == NormalizeRelative(Column(cs, "gdp"))
        emp == NormalizeRelative(Column(cs, "employment_millions"))
        cur == NormalizeRelative(Column(cs, "currency_strength"))
    IN  DataFrame({"gdp", "employment_millions", "currency_strength",
                   "Economic_Size_Index", "Employment_Strength", "Currency_Power",
                   "Composite_Power"},
         [i \in 1..Len(cs) |->
            [Country |-> cs[i].Country, gdp |-> cs[i].gdp,
             employment_millions |-> cs[i].employment_millions,
             currency_strength |-> cs[i].currency_strength,
             Economic_Size_Index |-> size[i],
             Employment_Strength |-> emp[i],
             Currency_Power |-> cur[i],
             Composite_Power |-> CompositePower(size[i], emp[i], cur[i])]])

\* The frame create_international_comparison returns (lines 74-100).
comparison_df == InternationalComparison(countries)

\* Lines 115-117: the rows with Year == 2028 are selected and summed.
Employment2028(df) ==
    SeriesSum(Column(SelectSeq(df.rows, LAMBDA r : r.Year = 2028), "Predicted_Employment"))

\* load_data: the three CSV files are read.
LoadDataBody ==
    /\ private_data' = csv_files.private
    /\ public_data' = csv_files.public
    /\ employment_predictions' = csv_files.predictions
    /\ ret' = Outcome("load_data", "ok", None)
    /\ frame' = None
    /\ UNCHANGED csv_files

\* calculate_economic_indicators: subscripting None raises TypeError at line 40.
CalculateBody ==
    /\ IF private_data = None \/ public_data = None
       THEN /\ ret' = Outcome("calculate_economic_indicators", "TypeError", None)
            /\ UNCHANGED <<private_data, public_data>>
       ELSE /\ private_data' = PrivateIndicators(private_data)
            /\ public_data' = PublicIndicators(public_data)
            /\ ret' = Outcome("calculate_economic_indicators", "ok", None)
    /\ frame' = None
    /\ UNCHANGED <<csv_files, employment_predictions>>

PredictBody ==
    /\ ret' = PredictOutcome(private_data, public_data)
    /\ frame' = IF private_data # None /\ public_data # None
                    /\ "GDP_Impact" \in private_data.columns
                    /\ "GDP_Impact" \in public_data.columns
                 THEN PredictFrame(private_data, public_data)
                 ELSE None
    /\ UNCHANGED <<csv_files, private_data, public_data, employment_predictions>>

CompareBody ==
    /\ ret' = Outcome("create_international_comparison", "ok", comparison_df)
    /\ frame' = None
    /\ UNCHANGED <<csv_files, private_data, public_data, employment_predictions>>

\* The methods called directly on the predictor object.
LoadData ==
    /\ pc = "idle"
    /\ LoadDataBody
    /\ UNCHANGED <<pc, calls, gp, currencyVars, dashboardVars>>

CalculateEconomicIndicators ==
    /\ pc = "idle"
    /\ CalculateBody
    /\ UNCHANGED <<pc, calls, gp, currencyVars, dashboardVars>>

PredictGdpGrowth ==
    /\ pc = "idle"
    /\ PredictBody
    /\ UNCHANGED <<pc, calls, gp, currencyVars, dashboardVars>>

CreateInternationalComparison ==
    /\ pc = "idle"
    /\ CompareBody
    /\ UNCHANGED <<pc, calls, gp, currencyVars, dashboardVars>>

\* generate_predictions, one statement at a time; an exception ends the call.
After(next) == IF ret'.status = "ok" THEN next ELSE "idle"

GP_LoadData ==
    /\ pc = "idle"
    /\ LoadDataBody
    /\ calls' = <<"load_data">>
    /\ gp' = None
    /\ pc' = After("line106")
    /\ UNCHANGED <<currencyVars, dashboardVars>>

GP_Calculate ==
    /\ pc = "line106"
    /\ CalculateBody
    /\ calls' = Append(calls, "calculate_economic_indicators")
    /\ pc' = After("line109")
    /\ UNCHANGED <<gp, currencyVars, dashboardVars>>

GP_Predict ==
    /\ pc = "line109"
    /\ PredictBody
    /\ calls' = Append(calls, "predict_gdp_growth")
    /\ gp' = [gdp_forecast |-> ret'.value, comparison |-> None]
    /\ pc' = After("line112")
    /\ UNCHANGED <<currencyVars, dashboardVars>>

GP_Compare ==
    /\ pc = "line112"
    /\ CompareBody
    /\ calls' = Append(calls, "create_international_comparison")
    /\ gp' = [gp EXCEPT !.comparison = ret'.value]
    /\ pc' = After("line115")
    /\ UNCHANGED <<currencyVars, dashboardVars>>

\* Lines 115-124: employment_2028, the ranking and the returned dict.
GP_Return ==
    /\ pc = "line115"
    /\ \E p \in SortOrders(gp.comparison.rows, "Composite_Power") :
          ret' = Outcome("generate_predictions", "ok",
                    [gdp_forecast |-> gp.gdp_forecast,
                     international_comparison |-> gp.comparison,
                     employment_2028 |-> Employment2028(employment_predictions),
                     economic_ranking |->
                         DataFrame(gp.comparison.columns, Reorder(gp.comparison.rows, p))])
    /\ pc' = "idle"
    /\ frame' = None
    /\ UNCHANGED <<csv_files, private_data, public_data, employment_predictions, calls, gp,
                   currencyVars, dashboardVars>>

CurrencyIdle == ppp_data = <<>> /\ currency_out = None
DashboardIdle == economic_data = <<>> /\ dashboard_out = None

\* __init__ (lines 11-16), with the CSV files the script finds on disk.
Init ==
    /\ csv_files \in [private : PrivateTables, public : PublicTables,
                      predictions : PredictionTables]
    /\ private_data = None
    /\ public_data = None
    /\ employment_predictions = None
    /\ pc = "idle"
    /\ calls = <<>>
    /\ gp = None
    /\ frame = None
    /\ ret = Outcome("__init__", "ok", None)
    /\ CurrencyIdle
    /\ DashboardIdle

Next ==
    \/ LoadData
    \/ CalculateEconomicIndicators
    \/ PredictGdpGrowth
    \/ CreateInternationalComparison
    \/ GP_LoadData
    \/ GP_Calculate
    \/ GP_Predict
    \/ GP_Compare
    \/ GP_Return

Spec == Init /\ [][Next]_vars

(***************************************************************************)
(* currency_strength_analysis.py                                           *)
(***************************************************************************)
PredictorIdle ==
    /\ csv_files = None
    /\ private_data = None
    /\ public_data = None
    /\ employment_predictions = None
    /\ pc = "idle"
    /\ calls = <<>>
    /\ gp = None
    /\ frame = None
    /\ ret = Outcome("__init__", "ok", None)

PppRow(c, cost, rate, gdp) ==
    [Country |-> c, Cost_Index |-> cost, Exchange_Rate_to_ZAR |-> rate,
     GDP_per_Capita_USD |-> gdp]

\* The table of lines 18-23.
ppp_source ==
    << PppRow("USA", I(100), Num(185, 10), I(85000)),
       PppRow("China", I(58), Num(255, 100), I(12500)),
       PppRow("England", I(127), Num(234, 10), I(52000)),
       PppRow("South_Africa", I(45), I(1), I(6800)) >>

\* Rows for the tables the PPP computation is checked over: those of the source,
\* one whose PPP-adjusted income ties with the USA's, and one with a cost index of 0.
PppRowValues ==
    {ppp_source[i] : i \in 1..4}
        \cup {PppRow("Canada", I(50), Num(135, 10), I(42500)),
              PppRow("Nowhere", I(0), I(1), I(6800))}

SeqsFrom1(S, n) == UNION {[1..k -> S] : k \in 1..n}

\* Country is the key of a record: the rows of a table name distinct countries.
DistinctCountries(rows) ==
    \A i, j \in 1..Len(rows) : rows[i].Country = rows[j].Country => i = j

PppTables ==
    {ppp_source} \cup {t \in SeqsFrom1(PppRowValues, MaxLen) : DistinctCountries(t)}

\* PppAdjustedIncome with the cost index multiplied in, as in Currency_Fair_Value.
PppAdjustedIncomeTimesCost(gdp, cost) == FDiv(FMul(gdp, cost), I(100))

\* (GDP_per_Capita_USD * 100) / Cost_Index
PppAdjustedIncome(gdp, cost) == FDiv(FMul(gdp, I(100)), cost)

\* Exchange_Rate_to_ZAR * (Cost_Index / 100)
CurrencyFairValue(rate, cost) == FMul(rate, FDiv(cost, I(100)))

\* analyze_purchasing_power over the table `data`; rows keep their RangeIndex.
PurchasingPower(data) ==
    DataFrame({"Country", "Cost_Index", "Exchange_Rate_to_ZAR", "GDP_per_Capita_USD",
               "PPP_Adjusted_Income", "Currency_Fair_Value"},
        [i \in 1..Len(data) |->
            [index |-> i - 1,
             Country |-> data[i].Country,
             Cost_Index |-> data[i].Cost_Index,
             Exchange_Rate_to_ZAR |-> data[i].Exchange_Rate_to_ZAR,
             GDP_per_Capita_USD |-> data[i].GDP_per_Capita_USD,
             PPP_Adjusted_Income |->
                 PppAdjustedIncome(data[i].GDP_per_Capita_USD, data[i].Cost_Index),
             Currency_Fair_Value |->
                 CurrencyFairValue(data[i].Exchange_Rate_to_ZAR, data[i].Cost_Index)]])

\* create_currency_dashboard: 24 monthly rates with unseeded normal noise and their
\* standard deviations; what is drawn is not determined by the program, and the
\* draw stands for the series and the deviations computed from it.
CurrencyDashboard(draw) ==
    [currency_data |-> [months |-> 24, draw |-> draw],
     volatility |-> [currencies |-> {"USD", "CNY", "GBP"}, draw |-> draw]]

AnalyzePurchasingPower ==
    /\ currency_out' = Outcome("analyze_purchasing_power", "ok", PurchasingPower(ppp_data))
    /\ UNCHANGED <<ppp_data, predictorVars, dashboardVars>>

CreateCurrencyDashboard ==
    /\ \E draw \in 1..MaxSeeds :
          currency_out' = Outcome("create_currency_dashboard", "ok", CurrencyDashboard(draw))
    /\ UNCHANGED <<ppp_data, predictorVars, dashboardVars>>

\* generate_currency_report (lines 55-69).
GenerateCurrencyReport ==
    /\ LET ppp_analysis == PurchasingPower(ppp_data)
       IN  \E draw \in 1..MaxSeeds :
           \E p \in SortOrders(ppp_analysis.rows, "PPP_Adjusted_Income") :
              currency_out' = Outcome("generate_currency_report", "ok",
                  [ppp_analysis |-> ppp_analysis,
                   currency_trends |-> CurrencyDashboard(draw).currency_data,
                   volatility |-> CurrencyDashboard(draw).volatility,
                   strength_ranking |->
                       DataFrame(ppp_analysis.columns, Reorder(ppp_analysis.rows, p))])
    /\ UNCHANGED <<ppp_data, predictorVars, dashboardVars>>

InitCurrency ==
    /\ ppp_data \in PppTables
    /\ currency_out = Outcome("__init__", "ok", None)
    /\ PredictorIdle
    /\ DashboardIdle

NextCurrency ==
    \/ AnalyzePurchasingPower
    \/ CreateCurrencyDashboard
    \/ GenerateCurrencyReport

SpecCurrency == InitCurrency /\ [][NextCurrency]_vars

(***************************************************************************)
(* economic_comparison_dashboard.py                                        *)
(***************************************************************************)
EconomicRow(c, gdp, growth, emp, cur, innov, free) ==
    [Country |-> c, GDP_Trillion_USD |-> gdp, GDP_Growth_Rate |-> growth,
     Employment_Millions |-> emp, Currency_Strength |-> cur,
     Innovation_Index |-> innov, Economic_Freedom |-> free]

\* The table of lines 14-22.
economic_source ==
    << EconomicRow("USA", I(28), Num(21, 10), I(160), I(100), Num(879, 10), Num(766, 10)),
       EconomicRow("China", I(18), Num(52, 10), I(780), I(14), Num(819, 10), Num(584, 10)),
       EconomicRow("England", Num(35, 10), Num(18, 10), I(33), I(127), Num(822, 10),
                   Num(789, 10)),
       EconomicRow("South_Africa", Num(4, 10), Num(38, 10), Num(165, 10), Num(53, 10),
                   Num(424, 10), Num(598, 10)) >>

\* Rows for the tables the normalisation is checked over: those of the source, one
\* that ties with the USA in every metric, and one whose metrics are all 0.
EconomicRowValues ==
    {economic_source[i] : i \in 1..4}
        \cup {EconomicRow("Canada", I(28), Num(21, 10), I(160), I(100), Num(879, 10),
                          Num(766, 10)),
              EconomicRow("Nowhere", I(0), I(0), I(0), I(0), I(0), I(0))}

EconomicTables ==
    {economic_source}
        \cup {t \in SeqsFrom1(EconomicRowValues, MaxLen) : DistinctCountries(t)}

\* Lines 32-38.
EconomicPowerIndex(size, growth, emp, innov, cur) ==
    FAdd(FAdd(FAdd(FAdd(FMul(size, Num(35, 100)), FMul(growth, I(5))),
                   FMul(emp, Num(25, 100))),
              FMul(innov, Num(20, 100))),
         FMul(cur, Num(20, 100)))

\* create_comprehensive_dashboard over the table `data`.
ComprehensiveDashboard(data) ==
    LET size == NormalizeRelative(Column(data, "GDP_Trillion_USD"))
        emp == NormalizeRelative(Column(data, "Employment_Millions"))
        innov == NormalizeRelative(Column(data, "Innovation_Index"))
    IN  DataFrame({"Country", "GDP_Trillion_USD", "GDP_Growth_Rate", "Employment_Millions",
                   "Currency_Strength", "Innovation_Index", "Economic_Freedom",
                   "Economic_Size_Relative", "Employment_Market_Relative",
                   "Innovation_Relative", "Economic_Power_Index"},
            [i \in 1..Len(data) |->
                [index |-> i - 1,
                 Country |-> data[i].Country,
                 GDP_Trillion_USD |-> data[i].GDP_Trillion_USD,
                 GDP_Growth_Rate |-> data[i].GDP_Growth_Rate,
                 Employment_Millions |-> data[i].Employment_Millions,
                 Currency_Strength |-> data[i].Currency_Strength,
                 Innovation_Index |-> data[i].Innovation_Index,
                 Economic_Freedom |-> data[i].Economic_Freedom,
                 Economic_Size_Relative |-> size[i],
                 Employment_Market_Relative |-> emp[i],
                 Innovation_Relative |-> innov[i],
                 Economic_Power_Index |->
                     EconomicPowerIndex(size[i], data[i].GDP_Growth_Rate, emp[i], innov[i],
                                        data[i].Currency_Strength)]])

\* The `values` dict of create_radar_chart (lines 48-53), "0-100 scale".
radar_values ==
    [c \in {"USA", "China", "England", "South_Africa"} |->
        CASE c = "USA" -> <<100, 40, 21, 100, 100>>
          [] c = "China" -> <<64, 100, 100, 93, 14>>
          [] c = "England" -> <<13, 35, 4, 94, 127>>
          [] c = "South_Africa" -> <<1, 73, 2, 48, 5>>]

\* Lines 62-65: each list is closed by appending its first entry and plotted.
RadarChart(values) == [c \in DOMAIN values |-> values[c] \o <<values[c][1]>>]

gdp_forecast ==
    [y \in 2024..2028 |->
        CASE y = 2024 -> Num(42, 100) [] y = 2025 -> Num(45, 100) [] y = 2026 -> Num(48, 100)
          [] y = 2027 -> Num(52, 100) [] y = 2028 -> Num(56, 100)]

employment_forecast ==
    [y \in 2024..2028 |->
        CASE y = 2024 -> Num(172, 10) [] y = 2025 -> Num(181, 10) [] y = 2026 -> I(19)
          [] y = 2027 -> Num(201, 10) [] y = 2028 -> Num(213, 10)]

\* list(range(2024, 2029))
years == [i \in 1..5 |-> 2023 + i]

\* create_growth_forecast: d[y] raises KeyError for a year that is no key of d.
GrowthForecast(ys) ==
    IF \E i \in 1..Len(ys) : ys[i] \notin DOMAIN gdp_forecast
                              \/ ys[i] \notin DOMAIN employment_forecast
    THEN Outcome("create_growth_forecast", "KeyError", None)
    ELSE Outcome("create_growth_forecast", "ok",
             DataFrame({"Year", "GDP_Billion_USD", "Employment_Millions"},
                 [i \in 1..Len(ys) |->
                     [Year |-> ys[i], GDP_Billion_USD |-> gdp_forecast[ys[i]],
                      Employment_Millions |-> employment_forecast[ys[i]]]]))

CreateComprehensiveDashboard ==
    /\ dashboard_out' = Outcome("create_comprehensive_dashboard", "ok",
                                ComprehensiveDashboard(economic_data))
    /\ UNCHANGED <<economic_data, predictorVars, currencyVars>>

CreateRadarChart ==
    /\ dashboard_out' = Outcome("create_radar_chart", "ok",
                                [values |-> RadarChart(radar_values)])
    /\ UNCHANGED <<economic_data, predictorVars, currencyVars>>

CreateGrowthForecast ==
    /\ dashboard_out' = GrowthForecast(years)
    /\ UNCHANGED <<economic_data, predictorVars, currencyVars>>

\* generate_summary_report (lines 104-155); the charts are drawn from the two frames.
GenerateSummaryReport ==
    /\ dashboard_out' =
          IF GrowthForecast(years).status = "ok"
          THEN Outcome("generate_summary_report", "ok",
                   [comparison_data |-> ComprehensiveDashboard(economic_data),
                    growth_forecast |-> GrowthForecast(years).value])
          ELSE GrowthForecast(years)
    /\ UNCHANGED <<economic_data, predictorVars, currencyVars>>

\* The script (lines 158-165): the summary report, then the printed ranking.
DashboardScript ==
    /\ LET comparison_data == ComprehensiveDashboard(economic_data)
       IN  IF GrowthForecast(years).status = "ok"
           THEN \E p \in SortOrders(comparison_data.rows, "Economic_Power_Index") :
                   dashboard_out' = Outcome("script", "ok",
                       [comparison_data |-> comparison_data,
                        growth_forecast |-> GrowthForecast(years).value,
                        ranking |-> DataFrame({"Country", "Economic_Power_Index"},
                            [i \in 1..Len(comparison_data.rows) |->
                                [c \in {"index", "Country", "Economic_Power_Index"} |->
                                    comparison_data.rows[p[i]][c]]])])
           ELSE dashboard_out' = GrowthForecast(years)
    /\ UNCHANGED <<economic_data, predictorVars, currencyVars>>

InitDashboard ==
    /\ economic_data \in EconomicTables
    /\ dashboard_out = Outcome("__init__", "ok", None)
    /\ PredictorIdle
    /\ CurrencyIdle

NextDashboard ==
    \/ CreateComprehensiveDashboard
    \/ CreateRadarChart
    \/ CreateGrowthForecast
    \/ GenerateSummaryReport
    \/ DashboardScript

SpecDashboard == InitDashboard /\ [][NextDashboard]_vars

(***************************************************************************)
(* Properties of the predictor (specification Spec).                       *)
(***************************************************************************)
Loaded == private_data # None /\ public_data # None

HasImpact ==
    /\ Loaded
    /\ "GDP_Impact" \in private_data.columns
    /\ "GDP_Impact" \in public_data.columns

RowOf(df, country) == CHOOSE r \in {df.rows[i] : i \in 1..Len(df.rows)} : r.Country = country

Within(x, centre, tol) ==
    /\ FLe(FAdd(centre, Num(-tol.n, tol.d)), x)
    /\ FLe(x, FAdd(centre, tol))

\* C2, as the claim states it: create_international_comparison gives Currency_Power
\* 100 and Composite_Power 76.15 (within 0.01) for the USA.
C2_UsaCurrencyPowerIs100 ==
    ret.op = "create_international_comparison" =>
        /\ FEq(RowOf(ret.value, "USA").Currency_Power, I(100))
        /\ Within(RowOf(ret.value, "USA").Composite_Power, Num(7615, 100), Num(1, 100))

\* C2, amended: the largest currency_strength of the table is England's 1.27, so
\* Currency_Power is 100 for England and 1.0/1.27*100 (about 78.74) for the USA, and
\* Composite_Power for the USA is 100*0.4 + 20.51*0.3 + 78.74*0.3 = 69.78 within 0.01.
C2_UsaCompositePower ==
    ret.op = "create_international_comparison" =>
        /\ FEq(RowOf(ret.value, "England").Currency_Power, I(100))
        /\ FEq(RowOf(ret.value, "USA").Currency_Power, Num(10000, 127))
        /\ FEq(RowOf(ret.value, "USA").Economic_Size_Index, I(100))
        /\ Within(RowOf(ret.value, "USA").Employment_Strength, Num(2051, 100), Num(1, 100))
        /\ Within(RowOf(ret.value, "USA").Composite_Power, Num(6978, 100), Num(1, 100))

C2_Witness ==
    /\ ret.op = "create_international_comparison"
    /\ ret.status = "ok"
    /\ Len(ret.value.rows) = 4

\* C3, as the claim states it: a sector that is no key of private_gdp, and a
\* predictions table with no row for 2028, make the call fail with a KeyError and
\* yield no value.
C3_AbsentKeyRaises ==
    /\ (/\ ret.op = "calculate_economic_indicators"
        /\ Loaded
        /\ \E i \in 1..Len(private_data.rows) :
              private_data.rows[i].Sector \notin DOMAIN private_gdp)
       => ret.status = "KeyError"
    /\ (/\ ret.op = "generate_predictions"
        /\ \A i \in 1..Len(employment_predictions.rows) :
              employment_predictions.rows[i].Year # 2028)
       => ret.status = "KeyError"

\* C4, as the claim states it: with a total employment of 0 predict_gdp_growth
\* fails with a division error and returns no value.
C4_ZeroDenominatorRaises ==
    (/\ ret.op = "predict_gdp_growth"
     /\ HasImpact
     /\ \/ FEq(SeriesSum(Column(private_data.rows, "Employment_2024")), I(0))
        \/ FEq(SeriesSum(Column(public_data.rows, "Employment_2023")), I(0)))
    => /\ ret.status = "ZeroDivisionError"
       /\ ret.value = None

\* The aggregate as the claim writes it, from the raw fields and the weights.
RECURSIVE WeightedSum(_, _, _)
WeightedSum(rows, emp, weight) ==
    IF rows = <<>> THEN I(0)
    ELSE FAdd(FMul(FMul(FDiv(Head(rows).Growth_pct, I(100)), weight[Head(rows).Sector]),
                   Head(rows)[emp]),
              WeightedSum(Tail(rows), emp, weight))

RECURSIVE TotalEmployment(_, _)
TotalEmployment(rows, emp) ==
    IF rows = <<>> THEN I(0) ELSE FAdd(Head(rows)[emp], TotalEmployment(Tail(rows), emp))

SectorsKnown(rows, weight) == \A i \in 1..Len(rows) : rows[i].Sector \in DOMAIN weight

public_weight == [s \in {"Government"} |-> Num(20, 100)]

ExampleRows ==
    << [Sector |-> "Finance", Growth_pct |-> I(10), Employment_2024 |-> I(1000)],
       [Sector |-> "ICT", Growth_pct |-> I(5), Employment_2024 |-> I(2000)] >>

\* C5: for a sector table with non-zero total employment, every sector of which has
\* a contribution weight, the growth predict_gdp_growth computes for the table is
\* the sum of (growth/100 * weight * employment) over the sum of employment; for
\* (10, 0.25, 1000), (5, 0.15, 2000) GDP_Impact is 0.025, 0.0075 and the aggregate
\* 40/3000, about 1.333 percent.
C5_SectorWeightedGrowth ==
    (ret.op = "predict_gdp_growth" /\ ret.status = "ok") =>
        /\ (/\ ~FEq(TotalEmployment(csv_files.private.rows, "Employment_2024"), I(0))
            /\ SectorsKnown(csv_files.private.rows, private_gdp))
           => FEq(frame.private_growth,
                  FDiv(WeightedSum(csv_files.private.rows, "Employment_2024", private_gdp),
                       TotalEmployment(csv_files.private.rows, "Employment_2024")))
        /\ ~FEq(TotalEmployment(csv_files.public.rows, "Employment_2023"), I(0))
           => FEq(frame.public_growth,
                  FDiv(WeightedSum(csv_files.public.rows, "Employment_2023", public_weight),
                       TotalEmployment(csv_files.public.rows, "Employment_2023")))
        /\ csv_files.private.rows = ExampleRows
           => /\ Column(private_data.rows, "GDP_Impact") = <<Num(25, 1000), Num(75, 10000)>>
              /\ frame.private_growth = Num(40, 3000)
              /\ Within(FMul(frame.private_growth, I(100)), Num(1333, 1000), Num(1, 1000))

C5_Witness ==
    /\ ret.op = "predict_gdp_growth"
    /\ ret.status = "ok"
    /\ csv_files.private.rows = ExampleRows
    /\ Len(csv_files.public.rows) > 0
    /\ frame.private_growth = Num(1, 75)

RawFields(df) ==
    [i \in 1..Len(df.rows) |->
        [c \in {"Sector", "Growth_pct", "Employment_2024", "Employment_2023"}
               \cap DOMAIN df.rows[i] |-> df.rows[i][c]]]

IsPrefix(s, t) == Len(s) <= Len(t) /\ \A i \in 1..Len(s) : s[i] = t[i]

\* C10: generate_predictions calls load_data, calculate_economic_indicators and
\* predict_gdp_growth in that order, so its predict_gdp_growth reads loaded tables
\* that carry GDP_Impact; called on a predictor whose tables are not loaded or carry
\* no GDP_Impact, predict_gdp_growth raises and returns no forecast.
C10_LoadCalculatePredict ==
    /\ IsPrefix(calls, <<"load_data", "calculate_economic_indicators",
                         "predict_gdp_growth", "create_international_comparison">>)
    /\ pc = "line106" => Loaded /\ calls = <<"load_data">>
    /\ pc = "line109" => HasImpact
    /\ pc = "line112" => HasImpact /\ ret.op = "predict_gdp_growth" /\ ret.status = "ok"
    /\ (ret.op = "predict_gdp_growth" /\ ~HasImpact)
       => /\ ret.status \in {"TypeError", "KeyError"}
          /\ ret.value = None

C10_Witness ==
    /\ Len(calls) = 4
    /\ pc = "idle"
    /\ ret.op = "predict_gdp_growth"
    /\ ret.status = "KeyError"

(***************************************************************************)
(* Properties of the currency analyzer (specification SpecCurrency).       *)
(***************************************************************************)
\* The frame analyze_purchasing_power produced in the last call, if it ran.
PppAnalysis ==
    IF currency_out.op = "analyze_purchasing_power" THEN currency_out.value
    ELSE currency_out.value.ppp_analysis

PppComputed == currency_out.op \in {"analyze_purchasing_power", "generate_currency_report"}

\* C7: for every record with a non-zero Cost_Index, PPP_Adjusted_Income is
\* GDP_per_Capita_USD * 100 / Cost_Index; (85000, 100) gives 85000 and (6800, 45)
\* gives about 15111.11.
C7_PppAdjustedIncome ==
    PppComputed =>
        /\ Len(PppAnalysis.rows) = Len(ppp_data)
        /\ \A i \in 1..Len(ppp_data) :
              LET gdp == ppp_data[i].GDP_per_Capita_USD.n
                  cost == ppp_data[i].Cost_Index.n
                  ppp == PppAnalysis.rows[i].PPP_Adjusted_Income
              IN  /\ cost # 0 => IsNum(ppp) /\ ppp.n * cost = gdp * 100 * ppp.d
                  /\ (gdp = 85000 /\ cost = 100) => ppp = I(85000)
                  /\ (gdp = 6800 /\ cost = 45)
                     => Within(ppp, Num(1511111, 100), Num(1, 100))

C7_Witness ==
    /\ currency_out.op = "analyze_purchasing_power"
    /\ ppp_data = ppp_source
    /\ currency_out.value.rows[1].PPP_Adjusted_Income = I(85000)
    /\ currency_out.value.rows[4].PPP_Adjusted_Income = Num(136000, 9)

\* rows is ranked by col: non-increasing (nan last), and rows with equal keys in
\* the order of their index in the original frame.
NonIncreasing(rows, col) ==
    \A i, j \in 1..Len(rows) :
        i < j => \/ IsNaN(rows[j][col])
                 \/ ~IsNaN(rows[i][col]) /\ FLe(rows[j][col], rows[i][col])

StableTies(rows, col) ==
    \A i, j \in 1..Len(rows) :
        (i < j /\ rows[i][col] = rows[j][col]) => rows[i].index < rows[j].index

IsPermutation(rows, original) ==
    /\ Len(rows) = Len(original)
    /\ \A k \in 1..Len(original) :
          Cardinality({i \in 1..Len(rows) : rows[i] = original[k]}) = 1

RelativeColumns ==
    {<<"GDP_Trillion_USD", "Economic_Size_Relative">>,
     <<"Employment_Millions", "Employment_Market_Relative">>,
     <<"Innovation_Index", "Innovation_Relative">>}

Positive(x) == IsNum(x) /\ x.n > 0

In0To100(x) == FLe(I(0), x) /\ FLe(x, I(100))

\* C1: for a non-empty column of positive values, value / max * 100 is exactly 100
\* for every entry holding the maximal value and lies in [0, 100] for every entry.
C1_NormalizeRelative ==
    dashboard_out.op = "create_comprehensive_dashboard" =>
        \A cr \in RelativeColumns :
            (\A i \in 1..Len(economic_data) : Positive(economic_data[i][cr[1]]))
            => \A i \in 1..Len(economic_data) :
                  LET rel == dashboard_out.value.rows[i][cr[2]]
                  IN  /\ In0To100(rel)
                      /\ (\A j \in 1..Len(economic_data) :
                              FLe(economic_data[j][cr[1]], economic_data[i][cr[1]]))
                         => rel = I(100)

C1_Witness ==
    /\ dashboard_out.op = "create_comprehensive_dashboard"
    /\ economic_data = economic_source
    /\ dashboard_out.value.rows[1].Economic_Size_Relative = I(100)
    /\ dashboard_out.value.rows[2].Economic_Size_Relative = Num(450, 7)
    /\ dashboard_out.value.rows[2].Employment_Market_Relative = I(100)

\* C8, as the claim states it: the three relative columns of
\* create_comprehensive_dashboard (for a column whose maximum is not 0) and every
\* entry of the values table of create_radar_chart lie in [0, 100].
C8_RelativeMetricsIn0To100 ==
    /\ dashboard_out.op = "create_comprehensive_dashboard" =>
          \A cr \in RelativeColumns :
              Positive(SeriesMax(Column(economic_data, cr[1])))
              => \A i \in 1..Len(economic_data) :
                    In0To100(dashboard_out.value.rows[i][cr[2]])
    /\ dashboard_out.op = "create_radar_chart" =>
          \A c \in DOMAIN dashboard_out.value.values :
              \A i \in 1..Len(dashboard_out.value.values[c]) :
                  /\ 0 <= dashboard_out.value.values[c][i]
                  /\ dashboard_out.value.values[c][i] <= 100

====
